---------------------------- MODULE Spec2Model ----------------------------
(***************************************************************************)
(* Model of the tracking-pixel server (src/app.js): the connection manager *)
(* connectToDatabase, the GET /icon/:trackingId handler with its update    *)
(* promise raced against a timer, GET /ping, and the Email collection as   *)
(* the document store applies findOneAndUpdate to it.                      *)
(*                                                                         *)
(* One action is one run-to-completion turn of the Node event loop: the    *)
(* synchronous code of a callback together with the promise continuations  *)
(* (microtasks) it makes runnable.                                         *)
(***************************************************************************)
EXTENDS Integers, Sequences, FiniteSets, TLC

(* ------------------------------ bounds --------------------------------- *)
\* number of HTTP requests the server receives in a behaviour
NumReq == 2
\* number of unsolicited 'error' / 'disconnected' events of the connection
MaxEvents == 1

Req == 1..NumReq

(* ---------------------------- JS values -------------------------------- *)
\* strings that come with a request (header values, addresses) are kept as
\* sequences of tokens; the absent (undefined) one and the empty one are <<>>
Undefined == <<>>
Null == "null"
\* the default mongoose connection object (client.connection, app.js:56)
Conn == "connection"

\* JavaScript truthiness of a string-or-undefined value, as used by ||
Falsy(v) == v = Undefined
\* a || b
Or(a, b) == IF Falsy(a) THEN b ELSE a

(* ------------------------ the pixel (app.js:158) ----------------------- *)
\* the base64 alphabet, index i stands for the 6-bit value i-1
Alphabet ==
  << "A","B","C","D","E","F","G","H","I","J","K","L","M","N","O","P",
     "Q","R","S","T","U","V","W","X","Y","Z","a","b","c","d","e","f",
     "g","h","i","j","k","l","m","n","o","p","q","r","s","t","u","v",
     "w","x","y","z","0","1","2","3","4","5","6","7","8","9","+","/" >>

\* 'R0lGODlhAQABAIAAAAAAAP///yH5BAEAAAAALAAAAAABAAEAAAIBRAA7', char by char
GifBase64 ==
  << "R","0","l","G","O","D","l","h","A","Q","A","B","A","I","A","A",
     "A","A","A","A","A","P","/","/","/","y","H","5","B","A","E","A",
     "A","A","A","A","L","A","A","A","A","A","A","B","A","A","E","A",
     "A","A","I","B","R","A","A","7" >>

Sextet(c) == (CHOOSE i \in 1..64 : Alphabet[i] = c) - 1

\* the characters before the first '=' that belong to the alphabet
RECURSIVE Payload(_)
Payload(s) ==
  IF s = <<>> \/ Head(s) = "=" THEN <<>>
  ELSE IF \E i \in 1..64 : Alphabet[i] = Head(s)
       THEN <<Head(s)>> \o Payload(Tail(s))
       ELSE Payload(Tail(s))

\* Buffer.from(s, 'base64'): 4 characters give 3 bytes, a trailing group of
\* 3 gives 2 bytes, of 2 gives 1 byte, of 1 gives none
RECURSIVE DecodeSextets(_)
DecodeSextets(s) ==
  IF Len(s) < 2 THEN <<>>
  ELSE LET a == Sextet(s[1])
           b == Sextet(s[2])
           b1 == a * 4 + (b \div 16)
       IN IF Len(s) = 2 THEN <<b1>>
          ELSE LET c == Sextet(s[3])
                   b2 == (b % 16) * 16 + (c \div 4)
               IN IF Len(s) = 3 THEN <<b1, b2>>
                  ELSE LET d == Sextet(s[4])
                           b3 == (c % 4) * 64 + d
                       IN <<b1, b2, b3>> \o DecodeSextets(SubSeq(s, 5, Len(s)))

Base64Decode(s) == DecodeSextets(Payload(s))

\* Buffer.from('R0lGODlh...', 'base64')
Pixel == Base64Decode(GifBase64)

\* the headers of res.writeHead (app.js:151-157)
PixelHeaders ==
  [ ContentType   |-> "image/gif",
    CacheControl  |-> "no-cache, no-store, must-revalidate",
    Pragma        |-> "no-cache",
    Expires       |-> "0",
    ContentLength |-> "43" ]

\* the headers res.json sets; express computes the length from the body
JsonHeaders ==
  [ ContentType   |-> "application/json",
    CacheControl  |-> "",
    Pragma        |-> "",
    Expires       |-> "",
    ContentLength |-> "" ]

NoHeaders ==
  [ ContentType |-> "", CacheControl |-> "", Pragma |-> "", Expires |-> "",
    ContentLength |-> "" ]

\* a response nothing has been written to: body is the bytes written,
\* success the 'success' member of a JSON body
NoResponse ==
  [status |-> 0, headers |-> NoHeaders, body |-> <<>>, success |-> "",
   ended |-> FALSE]

\* res.writeHead(200, {...}); res.end(Buffer.from(..., 'base64'))
PixelResponse ==
  [status |-> 200, headers |-> PixelHeaders,
   body |-> Pixel, success |-> "", ended |-> TRUE]

\* res.json({ success: true, ... })   (app.js:130-135)
PingOkResponse ==
  [status |-> 200, headers |-> JsonHeaders, body |-> <<>>,
   success |-> "true", ended |-> TRUE]

\* res.status(500).json({ success: false, ... })   (app.js:137-141)
PingFailResponse ==
  [status |-> 500, headers |-> JsonHeaders, body |-> <<>>,
   success |-> "false", ended |-> TRUE]


(* ----------------------- requests (the inputs) ------------------------- *)
\* a comma separated list is kept token by token, so that it can be told
\* from its first element
ForwardedList == << "1.2.3.4", ",", " ", "5.6.6.7" >>
PeerAddr == << "10.0.0.1" >>
EdgeAddr == << "9.9.9.9" >>
Unknown == << "unknown" >>

\* what a request carries: the socket's peer address and its headers
Request(peer, ua, xff, cf) ==
  [ socketAddr |-> peer,
    headers |-> [ userAgent |-> ua, xForwardedFor |-> xff,
                  cfConnectingIp |-> cf ] ]

\* the requests the model sends: behind a proxy that forwards the client's
\* address, with a forwarded-for list and no peer address, behind a trusted
\* edge, and with nothing to tell the address from
ViaProxy == Request(PeerAddr, <<"Mozilla">>, ForwardedList, Undefined)
ListOnly == Request(Undefined, Undefined, ForwardedList, Undefined)
ViaEdge == Request(PeerAddr, <<"curl">>, Undefined, EdgeAddr)
Bare == Request(Undefined, <<"curl">>, Undefined, Undefined)

NoRequest == Request(Undefined, Undefined, Undefined, Undefined)

\* express's req.ip: app.js never sets 'trust proxy', so it is the peer
\* address of the socket (undefined once the socket is gone)
ReqIp(request) == request.socketAddr

\* const userAgent = req.headers['user-agent'] || 'unknown'   (app.js:169)
ResolveUserAgent(request) == Or(request.headers.userAgent, Unknown)

\* const ip = req.ip || req.headers['x-forwarded-for'] || 'unknown' (app.js:170)
ResolveIp(request) ==
  Or(ReqIp(request), Or(request.headers.xForwardedFor, Unknown))

(* ------------------- the Email collection (the store) ------------------ *)
\* the value of :trackingId in a request; "" is the missing one
KnownIds == {"t1", "t2"}
TrackingIds == KnownIds \cup {"tx", ""}

\* the GET /icon requests the model sends: trackingId and the rest
IconInputs ==
  { <<"t1", ViaProxy>>, <<"t1", ListOnly>>, <<"tx", ViaEdge>>, <<"", Bare>> }

\* a Date field that was never set
NoDate == 0

\* a document as the sender created it (emailSchema, app.js:78-120)
NewEmail(tid) ==
  [ trackingId |-> tid,
    messageId |-> "m-" \o tid,
    to |-> "rcpt-" \o tid,
    subject |-> "subj-" \o tid,
    body |-> "body-" \o tid,
    status |-> "sent",
    responseDetails |-> [ lastOpened |-> NoDate, userAgent |-> Undefined,
                          ip |-> Undefined, openHistory |-> <<>> ],
    metadata |-> [ openCount |-> 0 ],
    updatedAt |-> NoDate ]        \* timestamps: true   (app.js:117-119)

\* (variant: the update of the older handler, which replaces responseDetails
\* and pushes nothing)
ApplyUpdateNoPush(doc, ctx) ==
  [ doc EXCEPT
      !.status = "opened",
      !.responseDetails = [ lastOpened |-> ctx.timestamp,
                            userAgent |-> ctx.userAgent, ip |-> ctx.ip,
                            openHistory |-> <<>> ],
      !.metadata.openCount = @ + 1 ]

\* the update document of app.js:175-190 applied to one document:
\* $set, $push and $inc of one findOneAndUpdate are one atomic write
ApplyUpdate(doc, ctx) ==
  [ doc EXCEPT
      !.status = "opened",
      !.responseDetails.lastOpened = ctx.timestamp,
      !.responseDetails.userAgent = ctx.userAgent,
      !.responseDetails.ip = ctx.ip,
      !.responseDetails.openHistory =
          Append(@, [ timestamp |-> ctx.timestamp,
                      userAgent |-> ctx.userAgent, ip |-> ctx.ip ]),
      !.metadata.openCount = @ + 1,
      \* the schema option timestamps: true makes Mongoose add
      \* $set: { updatedAt: now } to every findOneAndUpdate
      !.updatedAt = ctx.timestamp ]

\* the documents the filter { trackingId } matches
Matching(coll, tid) == { d \in coll : d.trackingId = tid }

\* (variant: the history entry takes its address from the document's last
\* open instead of this request)
FindOneAndUpdateStaleIp(coll, tid, ctx) ==
  IF Matching(coll, tid) = {} THEN coll
  ELSE LET d == CHOOSE x \in Matching(coll, tid) : TRUE
       IN (coll \ {d}) \cup
          {ApplyUpdate(d, [ctx EXCEPT !.ip = d.responseDetails.ip])}

\* (variant: upsert: true)
FindOneAndUpdateUpsert(coll, tid, ctx) ==
  IF Matching(coll, tid) = {} THEN coll \cup {ApplyUpdate(NewEmail(tid), ctx)}
  ELSE LET d == CHOOSE x \in Matching(coll, tid) : TRUE
       IN (coll \ {d}) \cup {ApplyUpdate(d, ctx)}

\* (variant: a read-modify-write that stores the counter and the history it
\* computed from a fresh document)
FindOneAndUpdateOverwrite(coll, tid, ctx) ==
  IF Matching(coll, tid) = {} THEN coll
  ELSE LET d == CHOOSE x \in Matching(coll, tid) : TRUE
       IN (coll \ {d}) \cup
          {[ApplyUpdate(d, ctx) EXCEPT
              !.metadata.openCount = 1,
              !.responseDetails.openHistory =
                  <<[ timestamp |-> ctx.timestamp,
                      userAgent |-> ctx.userAgent, ip |-> ctx.ip ]>>]}

\* (variant: the update is sent a second time, and the store applies both)
FindOneAndUpdateTwice(coll, tid, ctx) ==
  IF Matching(coll, tid) = {} THEN coll
  ELSE LET d == CHOOSE x \in Matching(coll, tid) : TRUE
       IN (coll \ {d}) \cup {ApplyUpdate(ApplyUpdate(d, ctx), ctx)}

\* (variant: the filter is lost and the update is applied to every document)
FindOneAndUpdateAll(coll, tid, ctx) ==
  IF Matching(coll, tid) = {} THEN coll
  ELSE { ApplyUpdate(d, ctx) : d \in coll }

\* Email.findOneAndUpdate({trackingId}, update, {new: true, upsert: false}):
\* the collection afterwards
FindOneAndUpdate(coll, tid, ctx) ==
  IF Matching(coll, tid) = {} THEN coll
  ELSE LET d == CHOOSE x \in Matching(coll, tid) : TRUE
       IN (coll \ {d}) \cup {ApplyUpdate(d, ctx)}

\* ... and what it returns (.lean()): the updated document, or null (here
\* the empty set)
UpdateResult(coll, tid, ctx) ==
  IF Matching(coll, tid) = {} THEN {}
  ELSE {ApplyUpdate(CHOOSE x \in Matching(coll, tid) : TRUE, ctx)}

(* ------------------------------ state ---------------------------------- *)
VARIABLES
  cachedDb,      \* app.js:25   Null or the connection
  isConnecting,  \* app.js:26
  readyState,    \* mongoose.connection.readyState: 0 disconnected,
                 \* 1 connected, 2 connecting, 3 disconnecting
  hasListeners,  \* the 'error'/'disconnected' observers are registered
  attempts,      \* number of calls of mongoose.connect so far
  failures,      \* number of connection attempts that threw
  events,        \* number of unsolicited 'error'/'disconnected' events
  emails,        \* the Email collection
  clock,         \* the time new Date() reads
  req            \* per request: the handler's and its promises' state

mgr == <<cachedDb, isConnecting, readyState, hasListeners, attempts, failures>>
vars == <<cachedDb, isConnecting, readyState, hasListeners, attempts, failures,
          events, emails, clock, req>>

NoCtx == [timestamp |-> NoDate, userAgent |-> Undefined, ip |-> Undefined]

\* a request that has not arrived
Idle ==
  [ kind |-> "none", trackingId |-> "", request |-> NoRequest,
    res |-> NoResponse,
    pc |-> "idle",            \* where the connectToDatabase caller stands
    ctx |-> NoCtx,            \* userAgent, ip, timestamp of app.js:169-171
    timer |-> "none",         \* the setTimeout of app.js:217
    updateP |-> "none",       \* updatePromise
    timeoutP |-> "none",      \* timeoutPromise
    raced |-> FALSE,          \* Promise.race has subscribed to both
    handlerP |-> "none",      \* the promise of the async route handler
    log |-> {},               \* what the request wrote to the console
    endedAtConnect |-> FALSE, \* res.end had run when connectToDatabase
                              \* was called
    endedAtUpdate |-> FALSE,  \* ... and when findOneAndUpdate was issued
    calledCold |-> FALSE,     \* connectToDatabase was called with no handle
                              \* and before any attempt had ended
    applied |-> FALSE ]       \* the store has applied this request's update

Init ==
  /\ cachedDb = Null
  /\ isConnecting = FALSE
  /\ readyState = 0
  /\ hasListeners = FALSE
  /\ attempts = 0
  /\ failures = 0
  /\ events = 0
  /\ emails = { NewEmail(t) : t \in KnownIds }
  /\ clock = 0
  /\ req = [r \in Req |-> Idle]


(* ------------------ the handlers' code, request by request ------------- *)
\* (variant: the pixel is not written before recording starts)
SendPixelDeferred(q) == q

\* res.writeHead(...); res.end(...)   (app.js:151-158)
SendPixel(q) == [q EXCEPT !.res = PixelResponse]

\* (variant: the test for a trackingId is left out)
MissingIdNever(tid) == FALSE

\* !trackingId   (app.js:160)
MissingId(tid) == tid = ""

\* app.js:160-163: no trackingId, the handler returns
NoTrackingId(q) ==
  [q EXCEPT !.log = @ \cup {"noid"}, !.handlerP = "fulfilled",
            !.pc = "finished"]

\* app.js:165-223 as far as the handler runs before it first suspends: the
\* update function is started, the timer set, and Promise.race subscribes
\* to updatePromise and timeoutPromise
StartRace(q) ==
  [q EXCEPT !.updateP = "pending", !.timeoutP = "pending",
            !.timer = "armed", !.raced = TRUE]

\* app.js:169-196: userAgent, ip and timestamp are read and the update is
\* sent to the store
IssueUpdate(q, now) ==
  [q EXCEPT !.pc = "updating",
            !.ctx = [ timestamp |-> now,
                      userAgent |-> ResolveUserAgent(q.request),
                      ip |-> ResolveIp(q.request) ],
            !.endedAtUpdate = q.res.ended]

\* the update function returns (app.js:200, 204 or the end of the catch):
\* updatePromise fulfils, and if the race is still open the handler's await
\* (app.js:223) resumes and the handler ends
UpdateDone(q, entry) ==
  [q EXCEPT !.pc = "finished", !.updateP = "fulfilled",
            !.log = @ \cup {entry},
            !.handlerP = IF q.raced /\ @ = "pending" THEN "fulfilled" ELSE @]

\* the catch of app.js:205-212
UpdateCaught(q) == UpdateDone(q, "error")

\* (variant: no try/catch around the race, the rejection leaves the handler)
RaceRethrown(q) == [q EXCEPT !.handlerP = "rejected"]

\* (variant: the handler awaits updatePromise alone, the timer ends nothing)
RaceIgnored(q) == q

\* the catch of app.js:224-226, when the race rejects
RaceRejected(q) ==
  [q EXCEPT !.log = @ \cup {"timeout"}, !.handlerP = "fulfilled"]

\* app.js:130-135 and app.js:136-142
PingOk(q) ==
  [q EXCEPT !.pc = "finished", !.res = PingOkResponse,
            !.handlerP = "fulfilled"]

\* (variant: the catch of /ping logs the error and sends nothing)
PingFailSilent(q) == [q EXCEPT !.pc = "finished", !.handlerP = "fulfilled"]

PingFail(q) ==
  [q EXCEPT !.pc = "finished", !.res = PingFailResponse,
            !.handlerP = "fulfilled"]

\* the caller's continuation when connectToDatabase returns a handle ...
Returned(q, now) ==
  IF q.kind = "icon" THEN IssueUpdate(q, now) ELSE PingOk(q)

\* ... and when it throws
Thrown(q) ==
  IF q.kind = "icon" THEN UpdateCaught(q) ELSE PingFail(q)

(* ------------------- connectToDatabase (app.js:28-76) ------------------ *)
\* attempts and failures count the calls of mongoose.connect and the runs
\* of the catch; a request makes at most one of each, so among NumReq
\* requests the counts are exact, and beyond that they stay at MaxCount
MaxCount == NumReq
Inc(n) == IF n < MaxCount THEN n + 1 ELSE n

\* (variant: the catch leaves isConnecting set)
CaughtFlagLeft == [isConnecting |-> TRUE, cachedDb |-> Null]

\* the assignments of the catch, isConnecting = false; cachedDb = null
\* (app.js:71-72)
Caught == [isConnecting |-> FALSE, cachedDb |-> Null]

\* (variant: the observers of 'error' and 'disconnected' leave cachedDb)
OnEventIgnored(db) == db

\* what the observers of 'error' and 'disconnected' make of cachedDb
\* (app.js:60 and app.js:65)
OnEvent(db) == Null

\* (variant: no isConnecting guard)
ConnectStepNoGuard ==
  IF cachedDb # Null /\ readyState = 1 THEN "return"
  ELSE IF readyState # 0 THEN "disconnect"
  ELSE "connect"

\* what a call does before it first suspends (app.js:29-47)
ConnectStep ==
  IF cachedDb # Null /\ readyState = 1 THEN "return"
  ELSE IF isConnecting THEN "poll"
  ELSE IF readyState # 0 THEN "disconnect"
  ELSE "connect"

\* request r, whose state is q, calls connectToDatabase
EnterConnect(r, q) ==
  LET step == ConnectStep
      q1 == [q EXCEPT !.endedAtConnect = q.res.ended]
  IN
  /\ req' = [req EXCEPT ![r] =
        CASE step = "return" -> Returned(q1, clock + 1)
          [] step = "poll" -> [q1 EXCEPT !.pc = "polling"]
          [] step = "disconnect" -> [q1 EXCEPT !.pc = "disconnecting"]
          [] step = "connect" -> [q1 EXCEPT !.pc = "connecting"] ]
  /\ clock' = IF step = "return" /\ q.kind = "icon" THEN clock + 1 ELSE clock
  /\ isConnecting' = IF step \in {"disconnect", "connect"} THEN TRUE
                     ELSE isConnecting
  /\ readyState' = CASE step = "disconnect" -> 3
                     [] step = "connect" -> 2
                     [] OTHER -> readyState
  /\ attempts' = IF step = "connect" THEN Inc(attempts) ELSE attempts
  /\ UNCHANGED <<cachedDb, hasListeners, failures, events, emails>>

(* ------------------------------ actions -------------------------------- *)
\* no connection is established and no attempt to establish one has ended
ColdStart == cachedDb = Null /\ ~hasListeners /\ failures = 0

\* requests are numbered in the order they arrive
CanArrive(r) ==
  /\ req[r].kind = "none"
  /\ IF r = 1 THEN TRUE ELSE req[r - 1].kind # "none"

\* GET /icon/:trackingId arrives (app.js:146-223, to the first suspension)
ReceiveIcon(r) ==
  /\ CanArrive(r)
  /\ \E in \in IconInputs :
       LET tid == in[1]
           p == in[2]
           q0 == SendPixel([Idle EXCEPT !.kind = "icon", !.trackingId = tid,
                                        !.request = p,
                                        !.handlerP = "pending"])
       IN IF MissingId(tid)
          THEN /\ req' = [req EXCEPT ![r] = NoTrackingId(q0)]
               /\ UNCHANGED <<mgr, events, emails, clock>>
          ELSE EnterConnect(r, [StartRace(q0) EXCEPT
                                  !.calledCold = ColdStart])

\* GET /ping arrives (app.js:127-129)
ReceivePing(r) ==
  /\ CanArrive(r)
  /\ EnterConnect(r, [Idle EXCEPT !.kind = "ping", !.handlerP = "pending",
                                  !.calledCold = ColdStart])

\* the 100 ms timer of a waiting caller fires: it calls connectToDatabase
\* again (app.js:35-36)
PollWake(r) ==
  /\ req[r].pc = "polling"
  /\ EnterConnect(r, req[r])

\* mongoose.disconnect() resolves: the connection emits 'disconnected' and
\* the caller goes on to mongoose.connect (app.js:44-47)
DisconnectDone(r) ==
  /\ req[r].pc = "disconnecting"
  /\ cachedDb' = Null
  /\ readyState' = 2
  /\ attempts' = Inc(attempts)
  /\ req' = [req EXCEPT ![r].pc = "connecting"]
  /\ UNCHANGED <<isConnecting, hasListeners, failures, events, emails, clock>>

\* mongoose.disconnect() rejects: the catch of app.js:70-75
DisconnectFail(r) ==
  /\ req[r].pc = "disconnecting"
  /\ \E rs \in {0, 1} : readyState' = rs
  /\ isConnecting' = Caught.isConnecting
  /\ cachedDb' = Caught.cachedDb
  /\ failures' = Inc(failures)
  /\ req' = [req EXCEPT ![r] = Thrown(req[r])]
  /\ UNCHANGED <<hasListeners, attempts, events, emails, clock>>

\* mongoose.connect resolves (app.js:56-69), and the caller goes on
ConnectOk(r) ==
  /\ req[r].pc = "connecting"
  /\ readyState' = 1
  /\ cachedDb' = Conn
  /\ hasListeners' = TRUE
  /\ isConnecting' = FALSE
  /\ req' = [req EXCEPT ![r] = Returned(req[r], clock + 1)]
  /\ clock' = IF req[r].kind = "icon" THEN clock + 1 ELSE clock
  /\ UNCHANGED <<attempts, failures, events, emails>>

\* mongoose.connect rejects: the catch of app.js:70-75
ConnectFail(r) ==
  /\ req[r].pc = "connecting"
  /\ readyState' = 0
  /\ isConnecting' = Caught.isConnecting
  /\ cachedDb' = Caught.cachedDb
  /\ failures' = Inc(failures)
  /\ req' = [req EXCEPT ![r] = Thrown(req[r])]
  /\ UNCHANGED <<hasListeners, attempts, events, emails, clock>>

\* the store applies the update and answers (app.js:173-204)
StoreOk(r) ==
  /\ req[r].pc = "updating"
  /\ LET q == req[r]
         result == UpdateResult(emails, q.trackingId, q.ctx)
     IN /\ emails' = FindOneAndUpdate(emails, q.trackingId, q.ctx)
        /\ req' = [req EXCEPT ![r] =
              UpdateDone([q EXCEPT !.applied = (result # {})],
                         IF result = {} THEN "miss" ELSE "success")]
  /\ UNCHANGED <<mgr, events, clock>>

\* the store rejects the update (an error, or maxTimeMS exceeded)
StoreReject(r) ==
  /\ req[r].pc = "updating"
  /\ req' = [req EXCEPT ![r] = UpdateCaught(req[r])]
  /\ UNCHANGED <<mgr, events, emails, clock>>

\* the 5000 ms timer fires (app.js:217-219): timeoutPromise rejects, and if
\* the race is still open it rejects too
TimerFire(r) ==
  /\ req[r].timer = "armed"
  /\ LET q == [req[r] EXCEPT !.timer = "fired", !.timeoutP = "rejected"]
     IN req' = [req EXCEPT ![r] =
           IF q.raced /\ q.handlerP = "pending" THEN RaceRejected(q) ELSE q]
  /\ UNCHANGED <<mgr, events, emails, clock>>

\* the connection emits 'error' (app.js:58-61)
ConnError ==
  /\ hasListeners /\ readyState = 1 /\ events < MaxEvents
  /\ cachedDb' = OnEvent(cachedDb)
  /\ events' = events + 1
  /\ UNCHANGED <<isConnecting, readyState, hasListeners, attempts, failures,
                 emails, clock, req>>

\* the connection is lost and emits 'disconnected' (app.js:63-66)
ConnDisconnected ==
  /\ hasListeners /\ readyState = 1 /\ events < MaxEvents
  /\ cachedDb' = OnEvent(cachedDb)
  /\ readyState' = 0
  /\ events' = events + 1
  /\ UNCHANGED <<isConnecting, hasListeners, attempts, failures,
                 emails, clock, req>>

Next ==
  \/ \E r \in Req : ReceiveIcon(r)
  \/ \E r \in Req : ReceivePing(r)
  \/ \E r \in Req : PollWake(r)
  \/ \E r \in Req : DisconnectDone(r)
  \/ \E r \in Req : DisconnectFail(r)
  \/ \E r \in Req : ConnectOk(r)
  \/ \E r \in Req : ConnectFail(r)
  \/ \E r \in Req : StoreOk(r)
  \/ \E r \in Req : StoreReject(r)
  \/ \E r \in Req : TimerFire(r)
  \/ ConnError
  \/ ConnDisconnected

Spec == Init /\ [][Next]_vars


\* the timer of every handler that waits for the race does fire: Node runs
\* a setTimeout callback once its delay has passed
FairSpec == Spec /\ \A r \in Req : WF_vars(TimerFire(r))

(* ------------------- a server that never stops serving ---------------- *)
\* a /ping that has been answered is over: its number is free for the next
\* request the server receives (app.js:127 is called once per request, as
\* long as the process listens, app.js:229)
NextRequest(r) ==
  /\ req[r].kind = "ping" /\ req[r].handlerP = "fulfilled"
  /\ req[r].pc = "finished"
  /\ req' = [req EXCEPT ![r] = Idle]
  /\ UNCHANGED <<mgr, events, emails, clock>>

\* the connection manager under an endless stream of GET /ping requests
\* (a health check that keeps probing), NumReq of them open at a time
PingNext ==
  \/ \E r \in Req : ReceivePing(r)
  \/ \E r \in Req : NextRequest(r)
  \/ \E r \in Req : PollWake(r)
  \/ \E r \in Req : DisconnectDone(r)
  \/ \E r \in Req : DisconnectFail(r)
  \/ \E r \in Req : ConnectOk(r)
  \/ \E r \in Req : ConnectFail(r)
  \/ ConnError
  \/ ConnDisconnected

\* every attempt terminates (mongoose.disconnect and mongoose.connect
\* settle, app.js:44-54 sets the time limits), and the 100 ms timer of
\* every waiting caller fires (app.js:35)
PingSpec ==
  /\ Init /\ [][PingNext]_vars
  /\ \A r \in Req :
       /\ WF_vars(PollWake(r))
       /\ WF_vars(DisconnectDone(r) \/ DisconnectFail(r))
       /\ WF_vars(ConnectOk(r) \/ ConnectFail(r))

(* ------------------------- auxiliary definitions ----------------------- *)
\* the request is a GET /icon with a trackingId, so recording was started
Recording(q) == q.kind = "icon" /\ q.trackingId # ""

\* the document with this trackingId
DocOf(coll, tid) == CHOOSE d \in coll : d.trackingId = tid

\* the history entry a request's captured values make
EntryOf(q) ==
  [ timestamp |-> q.ctx.timestamp, userAgent |-> q.ctx.userAgent,
    ip |-> q.ctx.ip ]

\* the icon requests received so far for a trackingId, and those among them
\* whose update the store has applied
OpensOf(tid) ==
  { r \in Req : req[r].kind = "icon" /\ req[r].trackingId = tid }
AppliedOf(tid) == { r \in OpensOf(tid) : req[r].applied }

(* -------------------------------- C1 ----------------------------------- *)
\* C1: every GET /icon request, whatever its trackingId, has ended its
\* response when connectToDatabase is called and when the update is issued,
\* and in every state from its arrival on the response is the complete one
\* (status 200, the fixed headers, the decoded GIF), whatever recording does.
C1_ResponseBeforeRecording ==
  \A r \in Req : req[r].kind = "icon" =>
    /\ req[r].res.status = 200
    /\ req[r].res.headers = PixelHeaders
    /\ req[r].res.body = Pixel
    /\ req[r].res.ended
    /\ req[r].trackingId # "" => req[r].endedAtConnect
    /\ req[r].ctx # NoCtx => req[r].endedAtUpdate

\* a request whose timer has fired while its update is still in the store
C1_Witness ==
  \E r \in Req : /\ Recording(req[r]) /\ req[r].pc = "updating"
                 /\ req[r].timer = "fired" /\ req[r].res.ended

(* -------------------------------- C2 ----------------------------------- *)
\* C2: the body the /icon handler writes is exactly 43 bytes long, the
\* value its Content-Length header declares.
C2_BodyIs43Bytes ==
  \A r \in Req : req[r].kind = "icon" =>
    /\ Len(req[r].res.body) = 43
    /\ ToString(Len(req[r].res.body)) = req[r].res.headers.ContentLength

(* -------------------------------- C3 ----------------------------------- *)
\* C3: a step in which the store applies a request's update to the existing
\* record of its trackingId raises that record's openCount by exactly 1 and
\* its openHistory length by exactly 1, sets status to 'opened', and the
\* appended entry carries the timestamp, userAgent and ip captured for that
\* request, the same values as lastOpened, responseDetails.userAgent and
\* responseDetails.ip.
C3_OneOpenOneEntry ==
  [][ \A r \in Req :
        ( /\ req[r].pc = "updating" /\ req'[r].pc = "finished"
          /\ "success" \in req'[r].log )
        => LET old == DocOf(emails, req[r].trackingId)
               new == DocOf(emails', req[r].trackingId)
               hist == new.responseDetails.openHistory
           IN /\ new.metadata.openCount = old.metadata.openCount + 1
              /\ Len(hist) = Len(old.responseDetails.openHistory) + 1
              /\ new.status = "opened"
              /\ hist[Len(hist)] = EntryOf(req[r])
              /\ req[r].ctx.userAgent = ResolveUserAgent(req[r].request)
              /\ req[r].ctx.ip = ResolveIp(req[r].request)
              /\ new.responseDetails.lastOpened = req[r].ctx.timestamp
              /\ new.responseDetails.userAgent = req[r].ctx.userAgent
              /\ new.responseDetails.ip = req[r].ctx.ip
    ]_vars

\* a record opened twice by two requests with different headers
C3_Witness ==
  \E r1, r2 \in Req :
    /\ r1 # r2
    /\ req[r1].trackingId = "t1" /\ req[r2].trackingId = "t1"
    /\ req[r1].applied /\ req[r2].applied
    /\ req[r1].ctx.ip # req[r2].ctx.ip
    /\ DocOf(emails, "t1").metadata.openCount = 2

(* -------------------------------- C4 ----------------------------------- *)
\* C4: in every reachable state every record's openCount equals the length
\* of its openHistory.
C4_CountEqualsHistory ==
  \A d \in emails :
    d.metadata.openCount = Len(d.responseDetails.openHistory)

\* an update that the store applied after the timer had ended the handler,
\* while another request's update is still in flight
C4_Witness ==
  \E r1, r2 \in Req :
    /\ r1 # r2
    /\ req[r1].applied /\ "timeout" \in req[r1].log
    /\ req[r2].pc = "updating" /\ req[r2].trackingId = req[r1].trackingId
    /\ DocOf(emails, req[r1].trackingId).metadata.openCount = 1

(* -------------------------------- C5 ----------------------------------- *)
\* every request has arrived and every handler has ended
AllFinished ==
  \A r \in Req : req[r].kind # "none" /\ req[r].handlerP = "fulfilled"

\* C5 (as claimed): once all requests have finished, every existing record
\* has openCount and openHistory length equal to the number N of opens
\* received for its trackingId.
C5_AllOpensCounted ==
  AllFinished =>
    \A d \in emails :
      /\ d.metadata.openCount = Cardinality(OpensOf(d.trackingId))
      /\ Len(d.responseDetails.openHistory) = Cardinality(OpensOf(d.trackingId))

\* C5 (amended): in every state every record's openCount and openHistory
\* length equal the number of opens of its trackingId whose update the
\* store has applied, and each such open has exactly one entry of its own:
\* no applied update is lost or merged, whether the opens ran one after
\* another or concurrently.
C5_AppliedOpensCounted ==
  \A d \in emails :
    LET hist == d.responseDetails.openHistory
    IN /\ d.metadata.openCount = Cardinality(AppliedOf(d.trackingId))
       /\ Len(hist) = Cardinality(AppliedOf(d.trackingId))
       /\ \A r \in AppliedOf(d.trackingId) :
            Cardinality({i \in 1..Len(hist) : hist[i] = EntryOf(req[r])}) = 1

\* all requests opened the same record, all updates were applied, and the
\* record counts them all
C5_Witness ==
  /\ AllFinished
  /\ OpensOf("t1") = Req /\ AppliedOf("t1") = Req
  /\ DocOf(emails, "t1").metadata.openCount = NumReq

(* -------------------------------- C6 ----------------------------------- *)
\* C6: a step of a request whose trackingId matches no record changes no
\* record and creates none, leaves its response the pixel response and its
\* handler unrejected; when the store has answered it, the request has
\* logged a miss and no success.
C6_UnknownIdNoMutation ==
  [][ \A r \in Req :
        ( /\ req'[r].kind = "icon"
          /\ Matching(emails, req'[r].trackingId) = {}
          /\ req'[r] # req[r] )
        => /\ emails' = emails
           /\ req'[r].res = PixelResponse
           /\ req'[r].handlerP # "rejected"
           /\ ~req'[r].applied
           /\ "success" \notin req'[r].log
           /\ ( /\ req[r].pc = "updating" /\ req'[r].pc = "finished"
                /\ "error" \notin req'[r].log )
                => "miss" \in req'[r].log
    ]_vars

\* a request for an unknown trackingId that the store has answered
C6_Witness ==
  \E r \in Req : /\ req[r].trackingId = "tx" /\ "miss" \in req[r].log
                 /\ emails = { NewEmail(t) : t \in KnownIds }

(* -------------------------------- C7 ----------------------------------- *)
\* the requests that have called connectToDatabase
Callers == { r \in Req : req[r].kind = "ping" \/ Recording(req[r]) }

\* C7 (as claimed): when every caller so far called connectToDatabase while
\* no connection was established and before the first attempt had ended
\* (the callers are concurrent), mongoose.connect has been called at most
\* once in total.
C7_OneAttemptInTotal ==
  (events = 0 /\ \A r \in Callers : req[r].calledCold) => attempts <= 1

\* C7 (amended): callers that find no connection share one attempt as long
\* as no attempt fails and no error/disconnected event drops the handle:
\* the first caller starts it at once, and the number of mongoose.connect
\* calls never exceeds 1 + the failed attempts + the events.
C7_OneAttemptUnlessFailure ==
  /\ attempts <= 1 + failures + events
  /\ (Callers # {} /\ failures = 0 /\ events = 0) => attempts = 1

\* all callers came while nothing was connected and one attempt served all
C7_Witness ==
  /\ Callers = Req
  /\ \A r \in Req : req[r].calledCold /\ req[r].pc \in {"updating", "finished"}
  /\ attempts = 1 /\ failures = 0 /\ events = 0 /\ cachedDb = Conn

(* -------------------------------- C8 ----------------------------------- *)
\* C8: the handler's promise never rejects, updatePromise never rejects,
\* timeoutPromise rejects only with the race subscribed to it, and a
\* recording that ended has been logged (miss, success, error or timeout).
C8_FailuresOnlyLogged ==
  \A r \in Req :
    /\ req[r].handlerP # "rejected"
    /\ req[r].updateP # "rejected"
    /\ req[r].timeoutP = "rejected" => req[r].raced
    /\ (Recording(req[r]) /\ req[r].handlerP = "fulfilled")
         => req[r].log \cap {"miss", "success", "error", "timeout"} # {}
    /\ (Recording(req[r]) /\ req[r].pc = "finished" /\ ~req[r].applied)
         => req[r].log \cap {"miss", "error"} # {}

\* the timer rejects after the update has won the race
C8_Witness ==
  \E r \in Req : /\ req[r].timeoutP = "rejected"
                 /\ "success" \in req[r].log /\ "timeout" \notin req[r].log

(* -------------------------------- C9 ----------------------------------- *)
\* C9: once the timer of a handler has fired the handler has ended; it has
\* logged the failure of the update exactly when the timer fired before the
\* update function ended; and every handler that waits for the race
\* eventually ends, whether or not connecting or the store ever complete.
C9_HandlerEndsByTimer ==
  /\ [](\A r \in Req :
          /\ req[r].timer = "fired" => req[r].handlerP = "fulfilled"
          /\ "timeout" \in req[r].log => req[r].timer = "fired"
          /\ (req[r].timer = "fired" /\ req[r].pc # "finished")
               => "timeout" \in req[r].log)
  /\ \A r \in Req :
       (Recording(req[r]) /\ req[r].handlerP = "pending")
          ~> (req[r].handlerP = "fulfilled")

\* the timer ended a handler whose connection attempt is still running
C9_Witness ==
  \E r \in Req : /\ req[r].pc = "connecting" /\ req[r].timer = "fired"
                 /\ req[r].handlerP = "fulfilled"
                 /\ "timeout" \in req[r].log

(* -------------------------------- C10 ---------------------------------- *)
\* the first element of a comma separated list
RECURSIVE FirstElement(_)
FirstElement(s) ==
  IF s = <<>> \/ Head(s) = "," THEN <<>>
  ELSE <<Head(s)>> \o FirstElement(Tail(s))

\* without the blanks around it
RECURSIVE Trim(_)
Trim(s) ==
  IF s = <<>> THEN s
  ELSE IF Head(s) = " " THEN Trim(Tail(s))
  ELSE IF s[Len(s)] = " " THEN Trim(SubSeq(s, 1, Len(s) - 1))
  ELSE s

\* the real-IP policy: the trusted edge header, else the first address of
\* the forwarded-for list, else the socket's peer address, else a sentinel
RealIpPolicy(request) ==
  IF request.headers.cfConnectingIp # Undefined
  THEN request.headers.cfConnectingIp
  ELSE IF request.headers.xForwardedFor # Undefined
  THEN Trim(FirstElement(request.headers.xForwardedFor))
  ELSE IF request.socketAddr # Undefined THEN request.socketAddr
  ELSE Unknown

\* C10: the ip recorded for an open is the one the real-IP policy gives for
\* the request: "1.2.3.4" for a forwarded-for list "1.2.3.4, 5.6.6.7".
C10_RecordedIpFollowsPolicy ==
  \A r \in Req : req[r].applied =>
    \A i \in 1..Len(DocOf(emails, req[r].trackingId).responseDetails.openHistory) :
      LET e == DocOf(emails, req[r].trackingId).responseDetails.openHistory[i]
      IN e.timestamp = req[r].ctx.timestamp
           => e.ip = RealIpPolicy(req[r].request)

(* -------------------------------- C11 ---------------------------------- *)
\* C11: a GET /ping is answered exactly when its connectToDatabase call has
\* ended: with status 200 and success true when the call returned a healthy
\* handle, with status 500 and success false when the call threw; and no
\* response other than the 500 of a /ping whose connection failed carries
\* an error status.
C11_PingReportsConnection ==
  /\ [](\A r \in Req :
          /\ req[r].kind = "ping" =>
               /\ req[r].res.ended <=> req[r].pc = "finished"
               /\ req[r].res \in {NoResponse, PingOkResponse, PingFailResponse}
          /\ (req[r].res.ended /\ req[r].res.status # 200) =>
               /\ req[r].kind = "ping"
               /\ req[r].res = PingFailResponse
               /\ failures >= 1)
  /\ [][\A r \in Req :
          (req'[r].kind = "ping" /\ req[r].pc # "finished"
             /\ req'[r].pc = "finished")
            => IF failures' = failures
               THEN /\ req'[r].res = PingOkResponse
                    /\ cachedDb' = Conn /\ readyState' = 1
               ELSE /\ req'[r].res = PingFailResponse
                    /\ failures' = failures + 1]_vars

\* one /ping was answered 500 after its attempt failed, the next one 200
C11_Witness ==
  \E r1, r2 \in Req :
    /\ req[r1].kind = "ping" /\ req[r1].res = PingFailResponse
    /\ req[r2].kind = "ping" /\ req[r2].res = PingOkResponse
    /\ failures = 1

(* -------------------------------- C12 ---------------------------------- *)
\* C12: a GET /icon request whose trackingId is empty gets the pixel and
\* nothing else: it never calls connectToDatabase, issues no update, sets
\* no timer, and the step that handles it leaves cachedDb, isConnecting,
\* the connection and every record as they were.
C12_NoIdNoRecording ==
  /\ [](\A r \in Req :
          (req[r].kind = "icon" /\ req[r].trackingId = "") =>
             /\ req[r].res = PixelResponse
             /\ req[r].pc = "finished" /\ req[r].handlerP = "fulfilled"
             /\ req[r].timer = "none" /\ req[r].updateP = "none"
             /\ req[r].timeoutP = "none" /\ ~req[r].raced
             /\ req[r].ctx = NoCtx /\ ~req[r].applied
             /\ req[r].log = {"noid"})
  /\ [][\A r \in Req :
          (req'[r].kind = "icon" /\ req'[r].trackingId = ""
             /\ req'[r] # req[r])
            => UNCHANGED <<mgr, events, emails, clock>>]_vars

\* a request without trackingId was served while another caller's
\* connection attempt was in flight
C12_Witness ==
  \E r1, r2 \in Req :
    /\ req[r1].kind = "icon" /\ req[r1].trackingId = ""
    /\ req[r1].res.ended
    /\ req[r2].pc = "connecting" /\ isConnecting

(* -------------------------------- C13 ---------------------------------- *)
\* the callers inside the disconnect-then-connect section of app.js:39-69
InAttempt == { r \in Req : req[r].pc \in {"disconnecting", "connecting"} }

\* C13: at most one caller is inside the disconnect-then-connect section at
\* any time, isConnecting is set while one is, and a request that calls
\* connectToDatabase (on arrival or on waking from a poll) while another
\* caller's attempt is in flight ends that step waiting.
C13_OneAttemptInFlight ==
  /\ [](/\ Cardinality(InAttempt) <= 1
        /\ InAttempt # {} => (isConnecting /\ cachedDb = Null))
  /\ [][\A r \in Req :
          (InAttempt # {} /\ req[r].pc \in {"idle", "polling"}
             /\ req'[r] # req[r] /\ ~MissingId(req'[r].trackingId))
            => (req'[r].pc = "polling" /\ InAttempt' = InAttempt)]_vars

\* one caller is connecting, every other request is waiting for it
C13_Witness ==
  \E r \in Req :
    /\ req[r].pc = "connecting"
    /\ \A o \in Req \ {r} : req[o].pc = "polling"

(* -------------------------------- C14 ---------------------------------- *)
\* C14: the step in which an attempt fails leaves cachedDb null and
\* isConnecting false, ends the call of the caller that made the attempt
\* with the error and starts no other attempt; a request whose call has
\* ended never enters connectToDatabase again, and a caller inside an
\* attempt never goes back to waiting; isConnecting is true exactly while
\* an attempt is in flight.
C14_FailedAttemptResets ==
  /\ [](isConnecting <=> InAttempt # {})
  /\ [][/\ failures' # failures =>
             /\ failures' = failures + 1
             /\ cachedDb' = Null /\ ~isConnecting'
             /\ attempts' = attempts
             /\ InAttempt' = {}
             /\ \E r \in InAttempt :
                  /\ req'[r].pc = "finished"
                  /\ req'[r].kind = "ping" => req'[r].res = PingFailResponse
                  /\ req'[r].kind = "icon" =>
                       ("error" \in req'[r].log /\ req'[r].ctx = NoCtx)
        /\ \A r \in Req :
             /\ req[r].pc \in {"updating", "finished"}
                  => req'[r].pc \in {"updating", "finished"}
             /\ req[r].pc \in {"disconnecting", "connecting"}
                  => req'[r].pc # "polling"]_vars

\* mongoose.disconnect threw: the caller's recording ended with the error
\* and the flag is clear although the connection is still up
C14_Witness ==
  \E r \in Req :
    /\ req[r].kind = "icon" /\ "error" \in req[r].log /\ req[r].ctx = NoCtx
    /\ failures = 1 /\ attempts = 1 /\ events = 1
    /\ ~isConnecting /\ cachedDb = Null /\ readyState = 1

(* -------------------------------- C15 ---------------------------------- *)
\* C15: provided every connection attempt terminates, a caller that waits
\* for an attempt in flight eventually leaves connectToDatabase: it returns
\* the handle or makes its own attempt and returns or throws; no caller
\* polls for ever, also while other callers keep arriving.
C15_NoCallerPollsForever ==
  \A r \in Req :
    (req[r].pc = "polling") ~> (req[r].pc \in {"updating", "finished"})

(* -------------------------------- C16 ---------------------------------- *)
\* C16: an 'error' or 'disconnected' event leaves cachedDb null; a call of
\* connectToDatabase (on arrival or on waking from a poll) made while no
\* healthy handle is cached does not return in that step but starts an
\* attempt, or waits when one is in flight; a call made while a healthy
\* handle is cached returns it in that step and leaves isConnecting, the
\* connection and the number of attempts as they were.
C16_EventForcesReconnect ==
  [][/\ events' # events => cachedDb' = Null
     /\ \A r \in Req :
          (req[r].pc \in {"idle", "polling"} /\ req'[r].pc # req[r].pc
             /\ ~MissingId(req'[r].trackingId))
            => IF cachedDb # Null /\ readyState = 1
               THEN /\ req'[r].pc = IF req'[r].kind = "icon" THEN "updating"
                                    ELSE "finished"
                    /\ req'[r].kind = "ping" => req'[r].res = PingOkResponse
                    /\ UNCHANGED <<cachedDb, isConnecting, readyState,
                                   attempts, failures>>
               ELSE /\ req'[r].pc = IF isConnecting THEN "polling"
                                    ELSE IF readyState # 0 THEN "disconnecting"
                                    ELSE "connecting"
                    /\ isConnecting'
                    /\ cachedDb' = Null]_vars

\* a recording was served on the first handle, an event dropped the handle,
\* and the next caller is making the second attempt
C16_Witness ==
  \E r1, r2 \in Req :
    /\ "success" \in req[r1].log
    /\ events = 1 /\ cachedDb = Null
    /\ req[r2].pc = "connecting" /\ attempts = 2

(* -------------------------------- C17 ---------------------------------- *)
\* sequence a is the beginning of sequence b
IsPrefix(a, b) == Len(a) <= Len(b) /\ SubSeq(b, 1, Len(a)) = a

\* C17: in every step every record is still there, its openCount has not
\* decreased, and its openHistory before the step is a prefix of its
\* openHistory after the step.
C17_CountAndHistoryOnlyGrow ==
  [][\A d \in emails :
       \E e \in emails' :
         /\ e.trackingId = d.trackingId
         /\ e.metadata.openCount >= d.metadata.openCount
         /\ IsPrefix(d.responseDetails.openHistory,
                     e.responseDetails.openHistory)]_vars

\* a record was opened twice: its history holds both opens, in the order
\* in which the store applied them
C17_Witness ==
  \E d \in emails :
    /\ Len(d.responseDetails.openHistory) = 2
    /\ d.metadata.openCount = 2
    /\ d.responseDetails.openHistory[1] # d.responseDetails.openHistory[2]

(* -------------------------------- C18 ---------------------------------- *)
\* document e differs from document d in status, responseDetails and
\* metadata.openCount at most
SameButOpenFields(d, e) ==
  [e EXCEPT !.status = d.status, !.responseDetails = d.responseDetails,
            !.metadata.openCount = d.metadata.openCount] = d

\* the step applies the update of a request for this trackingId
AppliesOpenFor(tid) ==
  \E r \in Req : /\ req[r].pc = "updating" /\ req[r].trackingId = tid
                 /\ ~req[r].applied /\ req'[r].applied

\* C18 (as claimed): a step changes a record only by applying an open for
\* its trackingId, and then only status, lastOpened, userAgent, ip and
\* openHistory of responseDetails, and openCount; every other field of the
\* record and every other record are as before.
C18_OnlyOpenFieldsChange ==
  [][\A d \in emails :
       \E e \in emails' :
         /\ e.trackingId = d.trackingId
         /\ SameButOpenFields(d, e)
         /\ e # d => AppliesOpenFor(d.trackingId)]_vars

\* C18 (amended): a step changes a record only by applying an open for its
\* trackingId, and then only status, lastOpened, userAgent, ip, openHistory,
\* openCount and the lifecycle timestamp updatedAt; trackingId, messageId,
\* recipient, subject and body of the record and every field of every other
\* record are as before.
C18_OnlyOpenFieldsAndUpdatedAt ==
  [][\A d \in emails :
       \E e \in emails' :
         /\ e.trackingId = d.trackingId
         /\ SameButOpenFields(d, [e EXCEPT !.updatedAt = d.updatedAt])
         /\ e # d => AppliesOpenFor(d.trackingId)
         /\ Cardinality(emails') = Cardinality(emails)]_vars

\* record t1 has been opened, record t2 is as it was created
C18_Witness ==
  /\ DocOf(emails, "t1").status = "opened"
  /\ DocOf(emails, "t1").updatedAt # NoDate
  /\ DocOf(emails, "t1").to = NewEmail("t1").to
  /\ DocOf(emails, "t2") = NewEmail("t2")

(* -------------------------------- C19 ---------------------------------- *)
\* C19: a record's openCount and the length of its openHistory never exceed
\* the number of /icon requests received so far for its trackingId; the
\* values a request captured for its update never change once the update
\* is issued, and a request whose update function has ended issues nothing
\* more, also after its timer has fired: once its update is applied, only
\* another request's update changes a record.
C19_AtMostOneUpdatePerRequest ==
  /\ [](\A d \in emails :
          /\ d.metadata.openCount <= Cardinality(OpensOf(d.trackingId))
          /\ Len(d.responseDetails.openHistory)
               <= Cardinality(OpensOf(d.trackingId)))
  /\ [][\A r \in Req :
          /\ req[r].pc \in {"updating", "finished"}
               => req'[r].ctx = req[r].ctx
          /\ req[r].pc = "finished"
               => (req'[r].pc = "finished"
                     /\ req'[r].applied = req[r].applied)
          /\ (req[r].applied /\ emails' # emails)
               => \E o \in Req \ {r} :
                    req[o].pc = "updating" /\ req'[o].applied]_vars

\* the timer won the race, the abandoned update was applied afterwards, and
\* the record counts this one request once
C19_Witness ==
  \E r \in Req :
    /\ "timeout" \in req[r].log /\ req[r].applied
    /\ "success" \in req[r].log
    /\ OpensOf(req[r].trackingId) = {r}
    /\ DocOf(emails, req[r].trackingId).metadata.openCount = 1

(* -------------------------------- C20 ---------------------------------- *)
\* C20: no caller is inside mongoose.disconnect (app.js:44) while the
\* update of another request, issued on the shared connection, is still in
\* flight.
C20_NoDisconnectUnderUpdate ==
  \A r1, r2 \in Req :
    ~(req[r1].pc = "disconnecting" /\ req[r2].pc = "updating")

=============================================================================
